---- MODULE Spec2Model ----
(***************************************************************************)
(* CodeGenie chat front-end (src/app.py): the conversation store           *)
(* (load_conversations / save_conversations over chats.json), the          *)
(* per-session state kept in st.session_state, and the handlers of the     *)
(* sidebar, the rename dialog and the chat input.                          *)
(*                                                                         *)
(* A file is a sequence of tokens.  json.dump writes "{", one token per    *)
(* chat entry and "}"; json.load accepts exactly such a sequence as a      *)
(* mapping, "[" "]" as a list, and rejects everything else.  Files are     *)
(* written through a descriptor at its own offset, so two sessions that    *)
(* opened chats.json.tmp write into the same file.                         *)
(***************************************************************************)
EXTENDS Naturals, Sequences, FiniteSets, TLC

----------------------------------------------------------------------------
(* Bounds of the model *)

\* largest number of conversations a session creates
MaxChats == 3
\* a store that holds this many messages takes no further submission
MaxMsgs == 1
\* the clock stops advancing at this value
MaxClock == 1
\* largest number of files attached to one submission
MaxUploads == 1

----------------------------------------------------------------------------
(* Values *)

AllSessions == {1, 2}

\* Python's None (session_state.show_rename_dialog_for, an unset current_chat)
None == "None"

\* a legacy entry has no created_at
NoTime == MaxClock + 1

\* f"Chat {n}"
ChatName(n) == "Chat " \o ToString(n)

\* what the user may type into the rename form besides the prefilled name
RenameInputs == {"", "A"}

Prompts == {"hi"}
\* get_gemini_response returns the model's text (or an error string, a text like any other)
Responses == {"hello"}
UploadName == "f.png"

TextMsg(role, content) == [role |-> role, type |-> "text", content |-> content, file_path |-> None]
FileMsg(sid, name) ==
    [role |-> "user", type |-> "image", content |-> name, file_path |-> <<"uploads", sid, name>>]
ReceivedMsg(name) == TextMsg("assistant", <<"Received your", "image", name>>)

\* a conversation of the in-memory store: the dict is a sequence of these, in insertion order
Conv(name, t, msgs) == [name |-> name, created_at |-> t, messages |-> msgs]

DefaultStore(t) == <<Conv(ChatName(1), t, <<>>)>>

Names(convs) == {convs[i].name : i \in 1..Len(convs)}
NameSeq(convs) == [i \in 1..Len(convs) |-> convs[i].name]
Get(convs, name) == convs[CHOOSE i \in 1..Len(convs) : convs[i].name = name]
TotalMsgs(convs) == LET RECURSIVE sum(_)
                        sum(i) == IF i = 0 THEN 0 ELSE Len(convs[i].messages) + sum(i - 1)
                    IN sum(Len(convs))

----------------------------------------------------------------------------
(* Files *)

LBrace == [k |-> "{"]
RBrace == [k |-> "}"]
LBracket == [k |-> "["]
RBracket == [k |-> "]"]
\* the zero bytes of a hole left by a write beyond the end of a file
Hole == [k |-> "nul"]
\* "name": {"created_at": t, "messages": msgs}  or, legacy,  "name": msgs
Entry(name, legacy, t, msgs) ==
    [k |-> "entry", name |-> name, legacy |-> legacy, created_at |-> t, messages |-> msgs]

Absent == [exists |-> FALSE, content |-> <<>>]
FileOf(content) == [exists |-> TRUE, content |-> content]

----------------------------------------------------------------------------
(* json.dump and json.load *)

\* json.dump(conversations, f): the tokens written, in order
JsonDump(convs) ==
    <<LBrace>> \o [i \in 1..Len(convs) |->
                     Entry(convs[i].name, FALSE, convs[i].created_at, convs[i].messages)]
               \o <<RBrace>>

\* a JSON object keeps a repeated key at its first position with its last value
RECURSIVE JsonObject(_)
JsonObject(entries) ==
    IF entries = <<>> THEN <<>>
    ELSE LET n == Len(entries)
             last == entries[n]
             rest == JsonObject(SubSeq(entries, 1, n - 1))
         IN IF \E i \in 1..Len(rest) : rest[i].name = last.name
            THEN [i \in 1..Len(rest) |-> IF rest[i].name = last.name THEN last ELSE rest[i]]
            ELSE Append(rest, last)

\* json.load(f): a mapping, a list, or JSONDecodeError
JsonLoad(content) ==
    LET n == Len(content) IN
    IF /\ n >= 2
       /\ content[1] = LBrace
       /\ content[n] = RBrace
       /\ \A i \in 2..(n - 1) : content[i].k = "entry"
    THEN [kind |-> "dict", entries |-> JsonObject(SubSeq(content, 2, n - 1))]
    ELSE IF content = <<LBracket, RBracket>>
    THEN [kind |-> "list", entries |-> <<>>]
    ELSE [kind |-> "JSONDecodeError", entries |-> <<>>]

----------------------------------------------------------------------------
(* load_conversations *)

\* (variant: the migrated record starts with an empty message list)
MigrateEntry_DropsMessages(e, t) ==
    IF e.legacy THEN Conv(e.name, t, <<>>) ELSE Conv(e.name, e.created_at, e.messages)

\* the migration loop: a bare message list becomes {created_at: now, messages: list}
MigrateEntry(e, t) ==
    IF e.legacy THEN Conv(e.name, t, e.messages) ELSE Conv(e.name, e.created_at, e.messages)

Migrate(entries, t) == [i \in 1..Len(entries) |-> MigrateEntry(entries[i], t)]

\* (variant: the except clause names JSONDecodeError only)
Swallowed_DecodeErrorOnly(kind) == kind = "JSONDecodeError"

\* the exceptions the try block swallows; a list raises AttributeError at data.items()
Swallowed(kind) == kind \in {"JSONDecodeError", "list"}

\* (variant: the empty mapping is returned as it is)
OrDefault_Never(data, t) == data

\* if not data: data = {"Chat 1": ...}
OrDefault(data, t) == IF data = <<>> THEN DefaultStore(t) ELSE data

\* the value load_conversations returns, whether it calls save_conversations first,
\* and whether it raises instead
LoadConversations(file, t) ==
    IF ~file.exists
    THEN [data |-> DefaultStore(t), migrated |-> FALSE, raised |-> FALSE]
    ELSE LET v == JsonLoad(file.content) IN
         IF v.kind = "dict"
         THEN [data |-> OrDefault(Migrate(v.entries, t), t),
               migrated |-> \/ \E i \in 1..Len(v.entries) : v.entries[i].legacy
                            \/ v.entries = <<>>,
               raised |-> FALSE]
         ELSE IF Swallowed(v.kind)
         THEN [data |-> DefaultStore(t), migrated |-> FALSE, raised |-> FALSE]
         ELSE [data |-> <<>>, migrated |-> FALSE, raised |-> TRUE]

----------------------------------------------------------------------------
(* The controller's computations on the store *)

\* the while loop of the New Chat handler, from i on
RECURSIVE FindNewChatName(_, _)
FindNewChatName(convs, i) ==
    IF ChatName(Len(convs) + i) \notin Names(convs)
    THEN ChatName(Len(convs) + i)
    ELSE FindNewChatName(convs, i + 1)

\* (variant: no loop, the name is "Chat len+1")
NewChatName_NoLoop(convs) == ChatName(Len(convs) + 1)

NewChatName(convs) == FindNewChatName(convs, 1)

\* conversations[new_chat_name] = {"created_at": now, "messages": []}
InsertChat(convs, name, t) == Append(convs, Conv(name, t, <<>>))

\* del conversations[chat_name]
DeleteKey(convs, name) == SelectSeq(convs, LAMBDA c : c.name # name)

\* list(conversations.keys())[0]
FirstKey(convs) == convs[1].name

\* old_data = conversations.pop(old); conversations[new] = old_data
RenameKey(convs, old, new) ==
    LET old_data == Get(convs, old)
    IN Append(DeleteKey(convs, old), [old_data EXCEPT !.name = new])

\* current_chat_data["messages"].append(m)
AppendMsg(convs, chat, m) ==
    [i \in 1..Len(convs) |->
        IF convs[i].name = chat
        THEN [convs[i] EXCEPT !.messages = Append(@, m)]
        ELSE convs[i]]

\* a write at offset pos of a file: it overwrites what is there, keeps what lies
\* beyond its end, and pads a shorter file with a hole
WriteAt(content, pos, toks) ==
    LET n == Len(content)
        end == pos + Len(toks)
        size == IF end > n THEN end ELSE n
    IN [i \in 1..size |->
          IF i > pos /\ i <= end THEN toks[i - pos]
          ELSE IF i <= n THEN content[i]
          ELSE Hole]

----------------------------------------------------------------------------
(* State *)

VARIABLES
    disk,                    \* chats.json
    tmp,                     \* chats.json.tmp
    now,                     \* datetime.now()
    live,                    \* the sessions that exist
    pc,                      \* each session's position in the script
    op,                      \* the handler each session is in the middle of
    conversations,           \* st.session_state.conversations
    current_chat,            \* st.session_state.current_chat
    show_rename_dialog_for,  \* st.session_state.show_rename_dialog_for
    msg,                     \* what the last handler reported (toast, error, warning, exception)
    fd,                      \* the file the descriptor opened by save_conversations is now
    uploads                  \* the uploaded files the chat handler has still to process

vars == <<disk, tmp, now, live, pc, op, conversations, current_chat,
          show_rename_dialog_for, msg, fd, uploads>>

files == <<disk, tmp, fd>>
session == <<conversations, current_chat, show_rename_dialog_for>>

HI == TextMsg("user", "hi")

\* the files chats.json may be when the application starts
InitFiles ==
    { Absent,
      FileOf(<<>>),
      FileOf(<<LBrace, Entry(ChatName(1), FALSE, 0, <<>>)>>),
      FileOf(<<LBracket, RBracket>>),
      FileOf(<<LBrace, RBrace>>),
      FileOf(<<LBrace, Entry(ChatName(1), TRUE, NoTime, <<HI>>), RBrace>>),
      FileOf(<<LBrace, Entry("A", TRUE, NoTime, <<HI>>), Entry(ChatName(1), FALSE, 0, <<>>), RBrace>>),
      FileOf(<<LBrace, Entry(ChatName(1), FALSE, 0, <<HI>>), RBrace>>) }

InitWith(sessions, stored) ==
    /\ disk \in stored
    /\ tmp = Absent
    /\ now = 0
    /\ live = sessions
    /\ pc = [s \in AllSessions |-> IF s \in sessions THEN "start" ELSE "off"]
    /\ op = [s \in AllSessions |-> "none"]
    /\ conversations = [s \in AllSessions |-> <<>>]
    /\ current_chat = [s \in AllSessions |-> None]
    /\ show_rename_dialog_for = [s \in AllSessions |-> None]
    /\ msg = [s \in AllSessions |-> "none"]
    /\ fd = [s \in AllSessions |-> "closed"]
    /\ uploads = [s \in AllSessions |-> 0]

\* a later reading of the clock is never earlier
Later(t) == IF t < MaxClock THEN t + 1 ELSE t

Init == InitWith({1}, InitFiles)
InitMulti == InitWith({1, 2}, {Absent})

----------------------------------------------------------------------------
(* Session start: lines 67-80 *)

\* if not conversations: conversations = default; current_chat = first key
FirstChat(convs, t) == IF convs = <<>> THEN DefaultStore(t) ELSE convs

Start(s) ==
    /\ pc[s] = "start"
    /\ LET r == LoadConversations(disk, now) IN
       IF r.raised
       THEN /\ msg' = [msg EXCEPT ![s] = "AttributeError"]
            /\ UNCHANGED <<pc, op, session, now>>
       ELSE IF r.migrated
       THEN /\ conversations' = [conversations EXCEPT ![s] = r.data]
            /\ op' = [op EXCEPT ![s] = "load"]
            /\ pc' = [pc EXCEPT ![s] = "save_open"]
            /\ msg' = [msg EXCEPT ![s] = "none"]
            /\ now' = Later(now)
            /\ UNCHANGED <<current_chat, show_rename_dialog_for>>
       ELSE /\ conversations' = [conversations EXCEPT ![s] = FirstChat(r.data, now)]
            /\ current_chat' = [current_chat EXCEPT ![s] = FirstKey(FirstChat(r.data, now))]
            /\ show_rename_dialog_for' = [show_rename_dialog_for EXCEPT ![s] = None]
            /\ op' = [op EXCEPT ![s] = "none"]
            /\ pc' = [pc EXCEPT ![s] = "idle"]
            /\ msg' = [msg EXCEPT ![s] = "none"]
            /\ now' = IF r.data = DefaultStore(now) THEN Later(now) ELSE now
    /\ UNCHANGED <<files, live, uploads>>

----------------------------------------------------------------------------
(* save_conversations: open(tmp, "w"), json.dump, close, os.replace *)

SaveOpen(s) ==
    /\ pc[s] = "save_open"
    /\ tmp' = FileOf(<<>>)
    /\ fd' = [fd EXCEPT ![s] = "tmp"]
    /\ pc' = [pc EXCEPT ![s] = "save_write"]
    /\ UNCHANGED <<disk, now, live, op, session, msg, uploads>>

\* json.dump fills the file object's buffer; leaving the with block flushes it in
\* one write at the descriptor's offset, 0, and closes the descriptor
SaveWrite(s) ==
    /\ pc[s] = "save_write"
    /\ LET doc == JsonDump(conversations[s])
       IN /\ tmp' = IF fd[s] = "tmp" THEN FileOf(WriteAt(tmp.content, 0, doc)) ELSE tmp
          /\ disk' = IF fd[s] = "disk" THEN FileOf(WriteAt(disk.content, 0, doc)) ELSE disk
    /\ fd' = [fd EXCEPT ![s] = "closed"]
    /\ pc' = [pc EXCEPT ![s] = "save_replace"]
    /\ UNCHANGED <<now, live, op, session, msg, uploads>>

\* what os.replace makes of the other sessions' open descriptors
Replaced(f) == IF f = "tmp" THEN "disk" ELSE IF f = "disk" THEN "orphan" ELSE f

SaveReplace(s) ==
    /\ pc[s] = "save_replace"
    /\ IF tmp.exists
       THEN /\ disk' = tmp
            /\ tmp' = Absent
            /\ fd' = [t \in AllSessions |-> Replaced(fd[t])]
            /\ msg' = [msg EXCEPT ![s] = "saved"]
            /\ op' = [op EXCEPT ![s] = "none"]
            /\ IF op[s] = "load"
               THEN /\ current_chat' = [current_chat EXCEPT ![s] = FirstKey(conversations[s])]
                    /\ show_rename_dialog_for' = [show_rename_dialog_for EXCEPT ![s] = None]
               ELSE IF op[s] = "rename"
               THEN /\ show_rename_dialog_for' = [show_rename_dialog_for EXCEPT ![s] = None]
                    /\ UNCHANGED current_chat
               ELSE UNCHANGED <<current_chat, show_rename_dialog_for>>
            /\ pc' = [pc EXCEPT ![s] = "idle"]
            /\ UNCHANGED conversations
       ELSE \* FileNotFoundError: another session renamed the temp file away
            /\ msg' = [msg EXCEPT ![s] = "FileNotFoundError"]
            /\ op' = [op EXCEPT ![s] = "none"]
            /\ IF op[s] = "load"
               THEN /\ pc' = [pc EXCEPT ![s] = "start"]
                    /\ conversations' = [conversations EXCEPT ![s] = <<>>]
               ELSE /\ pc' = [pc EXCEPT ![s] = "idle"]
                    /\ UNCHANGED conversations
            /\ UNCHANGED <<disk, tmp, fd, current_chat, show_rename_dialog_for>>
    /\ UNCHANGED <<now, live, uploads>>

----------------------------------------------------------------------------
(* Sidebar: lines 91-149 *)

\* "New Chat" button
NewChat(s) ==
    /\ pc[s] = "idle"
    /\ Len(conversations[s]) < MaxChats
    /\ LET new_chat_name == NewChatName(conversations[s]) IN
       /\ conversations' = [conversations EXCEPT ![s] = InsertChat(@, new_chat_name, now)]
       /\ current_chat' = [current_chat EXCEPT ![s] = new_chat_name]
    /\ op' = [op EXCEPT ![s] = "new_chat"]
    /\ msg' = [msg EXCEPT ![s] = "none"]
    /\ pc' = [pc EXCEPT ![s] = "save_open"]
    /\ now' = Later(now)
    /\ UNCHANGED <<files, live, show_rename_dialog_for, uploads>>

\* a chat's button in the list
SelectChat(s, chat_name) ==
    /\ pc[s] = "idle"
    /\ chat_name \in Names(conversations[s])
    /\ current_chat' = [current_chat EXCEPT ![s] = chat_name]
    /\ msg' = [msg EXCEPT ![s] = "none"]
    /\ UNCHANGED <<files, now, live, pc, op, conversations, show_rename_dialog_for, uploads>>

\* "Rename" in a chat's popover
OpenRenameDialog(s, chat_name) ==
    /\ pc[s] = "idle"
    /\ chat_name \in Names(conversations[s])
    /\ show_rename_dialog_for' = [show_rename_dialog_for EXCEPT ![s] = chat_name]
    /\ msg' = [msg EXCEPT ![s] = "none"]
    /\ UNCHANGED <<files, now, live, pc, op, conversations, current_chat, uploads>>

\* if len(conversations) > 1
CanDelete(convs) == Len(convs) > 1

\* current_chat after a chat was deleted
CurrentAfterDelete(convs, current, chat_name) == FirstKey(DeleteKey(convs, chat_name))

\* "Delete" in a chat's popover
DeleteChat(s, chat_name) ==
    /\ pc[s] = "idle"
    /\ chat_name \in Names(conversations[s])
    /\ IF CanDelete(conversations[s])
       THEN /\ op' = [op EXCEPT ![s] = "delete"]
            /\ conversations' = [conversations EXCEPT ![s] = DeleteKey(@, chat_name)]
            /\ current_chat' = [current_chat EXCEPT ![s] =
                                   CurrentAfterDelete(conversations[s], @, chat_name)]
            /\ msg' = [msg EXCEPT ![s] = "none"]
            /\ pc' = [pc EXCEPT ![s] = "save_open"]
       ELSE /\ msg' = [msg EXCEPT ![s] = "Cannot delete the last chat."]
            /\ UNCHANGED <<pc, op, conversations, current_chat>>
    /\ UNCHANGED <<files, now, live, show_rename_dialog_for, uploads>>

----------------------------------------------------------------------------
(* Rename dialog: lines 152-184 *)

\* (variant: current_chat is not updated)
CurrentAfterRename_Stale(current, chat_to_rename, new_name) == current

\* current_chat after chat_to_rename became new_name
CurrentAfterRename(current, chat_to_rename, new_name) ==
    IF current = chat_to_rename THEN new_name ELSE current

\* (variant: no check that the new name is free)
RenameBranch_NoExistsCheck(convs, chat_to_rename, new_name) ==
    IF new_name # "" /\ new_name # chat_to_rename
    THEN "rename"
    ELSE IF new_name = chat_to_rename THEN "same" ELSE "empty"

\* the branch the submit handler takes
RenameBranch(convs, chat_to_rename, new_name) ==
    IF new_name # "" /\ new_name # chat_to_rename
    THEN IF new_name \in Names(convs) THEN "exists" ELSE "rename"
    ELSE IF new_name = chat_to_rename THEN "same" ELSE "empty"

\* the form's "Rename" button, with new_name in the text input
SubmitRename(s, new_name) ==
    LET chat_to_rename == show_rename_dialog_for[s]
        branch == RenameBranch(conversations[s], chat_to_rename, new_name)
    IN
    /\ pc[s] = "idle"
    /\ chat_to_rename # None
    /\ new_name \in RenameInputs \cup {chat_to_rename}
    /\ IF branch = "exists"
       THEN /\ msg' = [msg EXCEPT ![s] = "A chat with this name already exists."]
            /\ UNCHANGED <<pc, op, session>>
       ELSE IF branch = "rename" /\ chat_to_rename \notin Names(conversations[s])
       THEN \* conversations.pop(chat_to_rename) raises
            /\ msg' = [msg EXCEPT ![s] = "KeyError"]
            /\ UNCHANGED <<pc, op, session>>
       ELSE IF branch = "rename"
       THEN /\ op' = [op EXCEPT ![s] = "rename"]
            /\ conversations' = [conversations EXCEPT ![s] =
                                    RenameKey(@, chat_to_rename, new_name)]
            /\ current_chat' = [current_chat EXCEPT ![s] =
                                   CurrentAfterRename(@, chat_to_rename, new_name)]
            /\ msg' = [msg EXCEPT ![s] = "none"]
            /\ pc' = [pc EXCEPT ![s] = "save_open"]
            /\ UNCHANGED show_rename_dialog_for
       ELSE IF branch = "same"
       THEN /\ msg' = [msg EXCEPT ![s] = "New name is the same as the old name."]
            /\ show_rename_dialog_for' = [show_rename_dialog_for EXCEPT ![s] = None]
            /\ UNCHANGED <<pc, op, conversations, current_chat>>
       ELSE /\ msg' = [msg EXCEPT ![s] = "Chat name cannot be empty."]
            /\ UNCHANGED <<pc, op, session>>
    /\ UNCHANGED <<files, now, live, uploads>>

\* the form's "Cancel" button
CancelRename(s) ==
    /\ pc[s] = "idle"
    /\ show_rename_dialog_for[s] # None
    /\ show_rename_dialog_for' = [show_rename_dialog_for EXCEPT ![s] = None]
    /\ msg' = [msg EXCEPT ![s] = "none"]
    /\ UNCHANGED <<files, now, live, pc, op, conversations, current_chat, uploads>>

----------------------------------------------------------------------------
(* Chat input and uploads: lines 257-296 *)

\* a submission with a prompt (or None) and n uploaded files
SubmitChat(s, prompt, n) ==
    /\ pc[s] = "idle"
    /\ current_chat[s] \in Names(conversations[s])
    /\ prompt # None \/ n > 0
    /\ TotalMsgs(conversations[s]) < MaxMsgs
    /\ IF prompt # None
       THEN /\ conversations' = [conversations EXCEPT ![s] =
                                    AppendMsg(@, current_chat[s], TextMsg("user", prompt))]
            /\ pc' = [pc EXCEPT ![s] = "ai_call"]
       ELSE /\ pc' = [pc EXCEPT ![s] = "upload"]
            /\ UNCHANGED conversations
    /\ uploads' = [uploads EXCEPT ![s] = n]
    /\ op' = [op EXCEPT ![s] = "chat"]
    /\ msg' = [msg EXCEPT ![s] = "none"]
    /\ UNCHANGED <<files, now, live, current_chat, show_rename_dialog_for>>

\* (variant: the handler reruns without saving)
AfterAppend_NoSave(left) == IF left > 0 THEN "upload" ELSE "idle"

\* where the handler goes once the text part is done, and after each file
AfterAppend(left) == IF left > 0 THEN "upload" ELSE "save_open"

\* get_gemini_response returns
AIResponds(s, response) ==
    /\ pc[s] = "ai_call"
    /\ conversations' = [conversations EXCEPT ![s] =
                            AppendMsg(@, current_chat[s], TextMsg("assistant", response))]
    /\ pc' = [pc EXCEPT ![s] = AfterAppend(uploads[s])]
    /\ UNCHANGED <<files, now, live, op, current_chat, show_rename_dialog_for, msg, uploads>>

\* one round of the loop over uploaded_files
Upload(s) ==
    /\ pc[s] = "upload"
    /\ conversations' = [conversations EXCEPT ![s] =
                            AppendMsg(AppendMsg(@, current_chat[s], FileMsg(s, UploadName)),
                                      current_chat[s], ReceivedMsg(UploadName))]
    /\ uploads' = [uploads EXCEPT ![s] = @ - 1]
    /\ pc' = [pc EXCEPT ![s] = AfterAppend(uploads[s] - 1)]
    /\ UNCHANGED <<files, now, live, op, current_chat, show_rename_dialog_for, msg>>

\* writing the uploaded file raises: the handler ends without saving
UploadFails(s) ==
    /\ pc[s] = "upload"
    /\ msg' = [msg EXCEPT ![s] = "OSError"]
    /\ uploads' = [uploads EXCEPT ![s] = 0]
    /\ pc' = [pc EXCEPT ![s] = "idle"]
    /\ op' = [op EXCEPT ![s] = "none"]
    /\ UNCHANGED <<files, now, live, session>>

----------------------------------------------------------------------------
(* Environment *)

\* the server process dies: every session's memory is lost, the files stay
Crash ==
    /\ \E s \in live : pc[s] # "start"
    /\ pc' = [s \in AllSessions |-> IF s \in live THEN "start" ELSE "off"]
    /\ op' = [s \in AllSessions |-> "none"]
    /\ conversations' = [s \in AllSessions |-> <<>>]
    /\ current_chat' = [s \in AllSessions |-> None]
    /\ show_rename_dialog_for' = [s \in AllSessions |-> None]
    /\ msg' = [s \in AllSessions |-> "none"]
    /\ fd' = [s \in AllSessions |-> "closed"]
    /\ uploads' = [s \in AllSessions |-> 0]
    /\ UNCHANGED <<disk, tmp, now, live>>

----------------------------------------------------------------------------

AllNames == {ChatName(n) : n \in 1..(2 * MaxChats)} \cup RenameInputs

Next ==
    \/ \E s \in live : Start(s)
    \/ \E s \in live : SaveOpen(s)
    \/ \E s \in live : SaveWrite(s)
    \/ \E s \in live : SaveReplace(s)
    \/ \E s \in live : NewChat(s)
    \/ \E s \in live, c \in AllNames : SelectChat(s, c)
    \/ \E s \in live, c \in AllNames : OpenRenameDialog(s, c)
    \/ \E s \in live, c \in AllNames : DeleteChat(s, c)
    \/ \E s \in live, c \in AllNames : SubmitRename(s, c)
    \/ \E s \in live : CancelRename(s)
    \/ \E s \in live, p \in Prompts \cup {None}, n \in 0..MaxUploads : SubmitChat(s, p, n)
    \/ \E s \in live, r \in Responses : AIResponds(s, r)
    \/ \E s \in live : Upload(s)
    \/ \E s \in live : UploadFails(s)

\* one session, every handler
Spec == Init /\ [][Next]_vars

\* the store shared by two sessions of one server process that may die
NextMulti ==
    \/ \E s \in live : Start(s)
    \/ \E s \in live : SaveOpen(s)
    \/ \E s \in live : SaveWrite(s)
    \/ \E s \in live : SaveReplace(s)
    \/ \E s \in live : NewChat(s)
    \/ Crash

SpecMulti == InitMulti /\ [][NextMulti]_vars

----------------------------------------------------------------------------
(* Properties *)

\* what load_conversations makes of chats.json as it is
Loaded == LoadConversations(disk, now)

IsMapping(file) == file.exists /\ JsonLoad(file.content).kind = "dict"
Stored == JsonLoad(disk.content).entries

IsPrefix(a, b) == Len(a) <= Len(b) /\ SubSeq(b, 1, Len(a)) = a

\* C1: the store is never empty: load() returns at least one conversation
\* whatever chats.json holds, a session's store holds at least one conversation
\* from the moment it is loaded, and Delete on a store of exactly one
\* conversation is rejected and leaves the count at 1.
C1_LoadNonEmpty == ~Loaded.raised /\ Len(Loaded.data) >= 1

C1_StoreNonEmpty == \A s \in live : pc[s] # "start" => Len(conversations[s]) >= 1

C1_LastDeleteRejected ==
    \A s \in live, c \in AllNames :
        DeleteChat(s, c) /\ Len(conversations[s]) = 1 =>
            /\ conversations'[s] = conversations[s]
            /\ Len(conversations'[s]) = 1
            /\ msg'[s] = "Cannot delete the last chat."
            /\ pc'[s] = "idle"

C1_NeverEmpty ==
    /\ [](C1_LoadNonEmpty /\ C1_StoreNonEmpty)
    /\ [][C1_LastDeleteRejected]_vars

C1_Witness ==
    /\ pc[1] = "idle"
    /\ msg[1] = "Cannot delete the last chat."
    /\ Len(conversations[1]) = 1

\* C3: when chats.json is absent, zero-length, malformed or holds JSON that is
\* not a mapping, load() raises nothing and returns exactly one conversation,
\* named "Chat 1", with no messages; the session then starts on that store.
Unusable(file) == ~file.exists \/ JsonLoad(file.content).kind # "dict"

IsDefault(convs) ==
    /\ NameSeq(convs) = <<"Chat 1">>
    /\ convs[1].messages = <<>>

StartsOnDefault ==
    \A s \in live :
        pc[s] = "start" /\ pc'[s] # "start" /\ Unusable(disk) =>
            /\ pc'[s] = "idle"
            /\ IsDefault(conversations'[s])
            /\ current_chat'[s] = "Chat 1"
            /\ msg'[s] = "none"
            /\ disk' = disk

C3_LoadFallsBack ==
    /\ [](Unusable(disk) => ~Loaded.raised /\ IsDefault(Loaded.data))
    /\ [][StartsOnDefault]_vars

C3_Witness ==
    /\ disk = FileOf(<<LBracket, RBracket>>)
    /\ pc[1] = "idle"
    /\ IsDefault(conversations[1])
    /\ current_chat[1] = "Chat 1"

\* what C4 says load() returns for a mapping
MigratedAs(file, r) ==
    LET e == JsonLoad(file.content).entries IN
    /\ ~r.raised
    /\ NameSeq(r.data) = [i \in 1..Len(e) |-> e[i].name]
    /\ \A i \in 1..Len(e) :
          IF e[i].legacy
          THEN r.data[i].messages = e[i].messages /\ r.data[i].created_at \in 0..MaxClock
          ELSE r.data[i] = Conv(e[i].name, e[i].created_at, e[i].messages)

HasLegacy(file) ==
    IsMapping(file) /\ \E i \in 1..Len(JsonLoad(file.content).entries) :
                           JsonLoad(file.content).entries[i].legacy

\* a load that migrated saves before it returns, and the file is then the store returned
SavedWhenMigrated ==
    \A s \in live :
        op[s] = "load" /\ pc'[s] = "idle" =>
            /\ conversations'[s] = conversations[s]
            /\ disk' = FileOf(JsonDump(conversations'[s]))

MigrationSaves ==
    \A s \in live :
        pc[s] = "start" /\ pc'[s] # "start" /\ HasLegacy(disk) =>
            /\ pc'[s] = "save_open"
            /\ conversations'[s] = Loaded.data

\* the store a starting session gets from load() is the stored mapping, migrated
LoadReturnsMigrated(stored) ==
    \A s \in live :
        pc[s] = "start" /\ pc'[s] # "start" /\ disk \in stored =>
            MigratedAs(disk, [data |-> conversations'[s], raised |-> FALSE])

\* C4 as claimed: for every stored mapping of legacy and canonical entries,
\* load() returns the same chat names, every legacy message list unchanged and
\* every canonical entry unmodified.
C4_Original == [][LoadReturnsMigrated({f \in InitFiles : IsMapping(f)})]_vars

\* C4 as amended: the same for every stored mapping with at least one entry;
\* and a load that migrated an entry has written the returned store to
\* chats.json when it returns.
C4_MigratesNonEmpty ==
    /\ [](IsMapping(disk) /\ Stored # <<>> => MigratedAs(disk, Loaded))
    /\ [][LoadReturnsMigrated({f \in InitFiles : IsMapping(f) /\ f.content # <<LBrace, RBrace>>})]_vars
    /\ [][MigrationSaves /\ SavedWhenMigrated]_vars

C4_Witness ==
    /\ pc[1] = "idle"
    /\ msg[1] = "saved"
    /\ conversations[1] = <<Conv("A", 0, <<HI>>), Conv("Chat 1", 0, <<>>)>>
    /\ disk = FileOf(JsonDump(conversations[1]))

\* C5: the New Chat loop ends within len+1 rounds on a name "Chat N" that is
\* no key of the store; the handler appends exactly that conversation, empty,
\* leaves the others as they were and makes it the active one; from a store
\* of only "Chat 1" two calls give "Chat 2" and then "Chat 3".
C5_LoopEnds ==
    \A s \in live :
        pc[s] = "idle" =>
            LET convs == conversations[s]
                n == Len(convs)
            IN /\ NewChatName(convs) \notin Names(convs)
               /\ \E i \in 1..(n + 1) : NewChatName(convs) = "Chat " \o ToString(n + i)

C5_Creates ==
    \A s \in live :
        NewChat(s) =>
            LET convs == conversations[s]
                n == Len(convs)
                name == current_chat'[s]
            IN /\ name \notin Names(convs)
               /\ name = NewChatName(convs)
               /\ Len(conversations'[s]) = n + 1
               /\ SubSeq(conversations'[s], 1, n) = convs
               /\ conversations'[s][n + 1].name = name
               /\ conversations'[s][n + 1].messages = <<>>
               /\ NameSeq(convs) = <<"Chat 1">> => name = "Chat 2"
               /\ NameSeq(convs) = <<"Chat 1", "Chat 2">> => name = "Chat 3"

C5_NewChat == []C5_LoopEnds /\ [][C5_Creates]_vars

C5_Witness ==
    /\ pc[1] = "idle"
    /\ msg[1] = "saved"
    /\ NameSeq(conversations[1]) = <<"Chat 2", "Chat 3", "Chat 4">>
    /\ current_chat[1] = "Chat 4"

\* the three ways a submitted rename does not go through
NotRenamed(convs, old, new) ==
    \/ new = ""
    \/ new = old
    \/ new # old /\ new \in Names(convs)

\* C6: a rename with an empty new name, with the name of another conversation
\* or with the old name changes neither the store nor the active chat; the
\* first two report an error, the third a warning.
C6_Rejected ==
    \A s \in live, new \in AllNames :
        LET old == show_rename_dialog_for[s] IN
        SubmitRename(s, new) /\ NotRenamed(conversations[s], old, new) =>
            /\ conversations'[s] = conversations[s]
            /\ current_chat'[s] = current_chat[s]
            /\ pc'[s] = "idle"
            /\ msg'[s] = IF new = "" THEN "Chat name cannot be empty."
                         ELSE IF new = old THEN "New name is the same as the old name."
                         ELSE "A chat with this name already exists."

C6_RenameRejected == [][C6_Rejected]_vars

C6_Witness ==
    /\ pc[1] = "idle"
    /\ msg[1] = "A chat with this name already exists."
    /\ show_rename_dialog_for[1] = "Chat 1"
    /\ NameSeq(conversations[1]) = <<"Chat 1", "A">>

\* C7: a rename of a stored conversation old to a new name that is not empty,
\* not old and no key of the store removes the key old, maps new to the record
\* old had, leaves every other conversation as it was, and moves the active
\* chat to new exactly when it was old.
C7_Renamed ==
    \A s \in live, new \in AllNames :
        LET old == show_rename_dialog_for[s]
            before == conversations[s]
            after == conversations'[s]
        IN SubmitRename(s, new) /\ old \in Names(before)
                                /\ ~NotRenamed(before, old, new) =>
            /\ Names(after) = (Names(before) \ {old}) \cup {new}
            /\ old \notin Names(after)
            /\ Len(after) = Len(before)
            /\ Get(after, new).created_at = Get(before, old).created_at
            /\ Get(after, new).messages = Get(before, old).messages
            /\ \A c \in Names(before) \ {old} : Get(after, c) = Get(before, c)
            /\ current_chat'[s] = IF current_chat[s] = old THEN new ELSE current_chat[s]

C7_RenameReplacesKey == [][C7_Renamed]_vars

C7_Witness ==
    /\ pc[1] = "idle"
    /\ msg[1] = "saved"
    /\ current_chat[1] = "A"
    /\ NameSeq(conversations[1]) = <<"Chat 2", "A">>
    /\ Get(conversations[1], "A").messages = <<HI>>

\* C8: Delete on a store of more than one conversation removes exactly that
\* conversation; the active chat becomes the first remaining one if the
\* deleted chat was active and is unchanged otherwise.
C8_Deleted ==
    \A s \in live, c \in AllNames :
        LET before == conversations[s]
            after == conversations'[s]
        IN DeleteChat(s, c) /\ Len(before) > 1 =>
            /\ after = DeleteKey(before, c)
            /\ current_chat'[s] = IF current_chat[s] = c THEN after[1].name
                                  ELSE current_chat[s]

C8_DeleteKeepsActive == [][C8_Deleted]_vars

\* C10: between any two actions of a session the active chat is a
\* conversation of the store, and the chat the rename dialog is open for, if
\* any, is one too.
C10_NoDanglingPointer ==
    \A s \in live :
        pc[s] = "idle" =>
            /\ current_chat[s] \in Names(conversations[s])
            /\ \/ show_rename_dialog_for[s] = None
               \/ show_rename_dialog_for[s] \in Names(conversations[s])

\* C9 as claimed: every mutation is on disk before the handler does anything
\* else; so while the handler waits for the AI answer, chats.json already
\* holds the user's message.
C9_Original ==
    \A s \in live : pc[s] = "ai_call" => disk = FileOf(JsonDump(conversations[s]))

InHandler(p) == p \in {"ai_call", "upload", "save_open", "save_write", "save_replace"}

SavedAtIdle ==
    \A s \in live :
        pc[s] = "idle" /\ msg[s] = "saved" => disk = FileOf(JsonDump(conversations[s]))

MutationLeadsToSave ==
    \A s \in live :
        pc[s] = "idle" /\ conversations'[s] # conversations[s] =>
            pc'[s] \in {"save_open", "ai_call"}

HandlerEndsSaved ==
    \A s \in live :
        InHandler(pc[s]) /\ pc'[s] = "idle" =>
            \/ msg'[s] = "saved" /\ disk' = FileOf(JsonDump(conversations'[s]))
            \/ msg'[s] = "OSError" /\ pc[s] = "upload"

OnlyAppends ==
    \A s \in live :
        /\ pc[s] \in {"save_open", "save_write", "save_replace"} =>
               conversations'[s] = conversations[s]
        /\ \A c \in Names(conversations[s]) \cap Names(conversations'[s]) :
               IsPrefix(Get(conversations[s], c).messages, Get(conversations'[s], c).messages)

\* C9 as amended: a handler that changes the store saves it before it ends:
\* New Chat, Rename and Delete right after their change, the chat handler
\* once, after the AI answer and the last upload message were appended (so
\* what it appended is not on disk while the AI call or an upload is under
\* way); when a handler has saved, chats.json is the session's store, every
\* message list in append order.
C9_SavedBeforeHandlerEnds ==
    /\ []SavedAtIdle
    /\ [][MutationLeadsToSave /\ HandlerEndsSaved /\ OnlyAppends]_vars

C9_Witness ==
    /\ pc[1] = "idle"
    /\ msg[1] = "saved"
    /\ Len(conversations[1]) = 1
    /\ conversations[1][1].messages =
          <<HI, TextMsg("assistant", "hello"), FileMsg(1, UploadName), ReceivedMsg(UploadName)>>
    /\ disk = FileOf(JsonDump(conversations[1]))

\* the documents passed to a save_conversations call that has not returned
InFlight ==
    {JsonDump(conversations[s]) :
        s \in {t \in live : pc[t] \in {"save_open", "save_write", "save_replace"}}}

Committed == disk' # disk => disk'.exists /\ disk'.content \in InFlight

\* C2: chats.json changes only by becoming one whole document that was passed
\* to save(), whatever the interleaving of the sessions' saves and wherever
\* the process dies.
C2_AtomicCommit == [][Committed]_vars

====
